---- MODULE Spec2Model ----
(***************************************************************************)
(* x1-solXEN: migration of burn records from the source store (burns) to   *)
(* the destination store (burn_records) and settlement of the pending      *)
(* records by mint transactions on the target ledger.                      *)
(*                                                                         *)
(* Integers are modelled at a reduced width: u64/i64 are Bits wide, and    *)
(* min_burn_amount (420_000_000 in config.rs) is scaled to a value that    *)
(* lies strictly between 0 and the largest positive i64 of that width.     *)
(***************************************************************************)
EXTENDS Integers, Sequences, FiniteSets, TLC

VARIABLES source, source_exists, table_created, dest, ledger, mig, st, clock, hist,
          inflight, display, cli

vars == <<source, source_exists, table_created, dest, ledger, mig, st, clock, hist,
          inflight, display, cli>>

(***************************************************************************)
(* Bounds                                                                  *)
(***************************************************************************)
Bits == 3
MaxEvents == 2
MaxConcEvents == 1
MaxTx == 2
MaxCalls == 2
MaxDisplayed == 120

(***************************************************************************)
(* Program constants                                                       *)
(***************************************************************************)
min_burn_amount == 2

Migrators == {"A", "B"}
Burners == {"w1", "w2"}
NoBurner == "none"
NullSig == "NULL"
NullTime == 0 - 1

\* main: no command is running
NoCommand == "none"

Pow2(n) == 2 ^ n
U64Max == Pow2(Bits) - 1
I64Max == Pow2(Bits - 1) - 1

(***************************************************************************)
(* Integer conversions                                                     *)
(***************************************************************************)
\* `x as i64` for a u64 x: two's complement reinterpretation
AsI64(u) == IF u > I64Max THEN u - Pow2(Bits) ELSE u

\* `x as u64` for an i64 x
AsU64(i) == i % Pow2(Bits)

\* a conversion that wraps a negative value into the u64 range
RawAmount_wrap(d) == d % Pow2(Bits)

\* Decimal::to_u64().unwrap_or(0): None for a negative or too large value
RawAmount(d) == IF d < 0 \/ d > U64Max THEN 0 ELSE d

(***************************************************************************)
(* Decimal: a 96-bit integer mantissa m and a scale e, the value m / 10^e  *)
(***************************************************************************)
MAX_PRECISION == 28
DisplayScale == 1000000

Pow10(n) == 10 ^ n

\* Decimal::from(n) for an unsigned integer
DecimalFrom(n) == [mantissa |-> n, scale |-> 0]

\* the digits of Decimal / Decimal for an integer dividend and an integer
\* divisor d: while a remainder is left and the scale is below
\* MAX_PRECISION, the remainder is multiplied by 10 and divided again
RECURSIVE DivDigits(_, _, _, _, _)
DivDigits(q, r, d, scale, max_scale) ==
    IF r = 0 \/ scale >= max_scale
    THEN [mantissa |-> q, scale |-> scale]
    ELSE DivDigits(q * 10 + (r * 10) \div d, (r * 10) % d, d, scale + 1, max_scale)

\* the division carried to two fractional digits only
amount_as_decimal_cents(amount) ==
    DivDigits(amount \div DisplayScale, amount % DisplayScale, DisplayScale, 0, 2)

\* BurnRecord::amount_as_decimal: Decimal::from(amount) / Decimal::from(1_000_000)
amount_as_decimal(amount) ==
    DivDigits(DecimalFrom(amount).mantissa \div DisplayScale,
              DecimalFrom(amount).mantissa % DisplayScale,
              DisplayScale, DecimalFrom(amount).scale, MAX_PRECISION)

\* decimal * Decimal::from(1_000_000) as an integer: the fractional digits
\* beyond the sixth are dropped
Rescale(dec) ==
    IF dec.scale <= 6
    THEN dec.mantissa * Pow10(6 - dec.scale)
    ELSE dec.mantissa \div Pow10(dec.scale - 6)

NoDecimal == [mantissa |-> 0, scale |-> 0 - 1]
NoDisplay == [raw |-> 0, decimal |-> NoDecimal]

(***************************************************************************)
(* Source store: the burns table, read in ORDER BY timestamp DESC          *)
(***************************************************************************)
SigName(i) == "s" \o ToString(i)

\* amounts a source row can hold: below the minimum, the minimum, a value
\* whose i64 cast is negative, and a Decimal beyond the u64 range
SrcAmounts == {min_burn_amount - 1, min_burn_amount, I64Max + 1, U64Max + 1}

\* decodes: row_to_burn_record returns Ok for the row (signature and burner
\* are readable as strings)
SourceEvent(i, b, a, n) ==
    [signature |-> SigName(i), burner |-> b, amount |-> a, timestamp |-> n - i + 1,
     decodes |-> TRUE]

Sources(max) ==
    UNION { { [i \in 1..n |-> SourceEvent(i, bs[i], as[i], n)] :
                bs \in [1..n -> Burners], as \in [1..n -> SrcAmounts] } :
            n \in 0..max }

\* sources in which a row may have a signature that cannot be decoded
SourcesMalformed(max) ==
    UNION { { [i \in 1..Len(src) |-> [src[i] EXCEPT !.decodes = ds[i]]] :
                ds \in [1..Len(src) -> BOOLEAN] } :
            src \in Sources(max) }

\* what the amount column of a source row can hold: a TEXT that parses as a
\* Decimal or does not, an INTEGER, a REAL, or NULL
AmountColumns ==
    {[type |-> t, parses |-> TRUE, value |-> v] :
        t \in {"text", "integer", "real"}, v \in {0 - 1, min_burn_amount}}
    \cup {[type |-> "text", parses |-> FALSE, value |-> 0],
          [type |-> "null", parses |-> FALSE, value |-> 0]}

\* migrator row_to_burn_record, the amount: a String is parsed with
\* Decimal::from_str(..).unwrap_or(ZERO); else the value is read as a number;
\* else Decimal::ZERO
DecodeAmount(column) ==
    IF column.type = "text"
    THEN IF column.parses THEN column.value ELSE 0
    ELSE IF column.type \in {"real", "integer"}
    THEN column.value
    ELSE 0

\* sources given by the amount columns of their rows
SourcesDecoded(max) ==
    UNION { { [i \in 1..n |->
                 [signature |-> SigName(i), burner |-> bs[i],
                  amount |-> DecodeAmount(cs[i]), timestamp |-> n - i + 1,
                  decodes |-> TRUE, column |-> cs[i]]] :
                bs \in [1..n -> Burners], cs \in [1..n -> AmountColumns] } :
            n \in 0..max }

RECURSIVE FilterBurner(_, _)
FilterBurner(rows, b) ==
    IF rows = <<>> THEN <<>>
    ELSE IF Head(rows).burner = b
         THEN <<Head(rows)>> \o FilterBurner(Tail(rows), b)
         ELSE FilterBurner(Tail(rows), b)

(***************************************************************************)
(* Destination store: the burn_records table                               *)
(***************************************************************************)
\* an existence query that never finds the row
Exists_never(d, sig) == FALSE

\* SELECT COUNT(*) FROM burn_records WHERE signature = ?1, exists > 0
Exists(d, sig) == \E k \in 1..Len(d) : d[k].signature = sig

CountSig(d, sig) == Cardinality({k \in 1..Len(d) : d[k].signature = sig})

\* a row inserted with the status columns already set
NewRow_minted(d, rec, raw_amount) ==
    [id |-> Len(d) + 1,
     signature |-> rec.signature,
     burner |-> rec.burner,
     amount |-> AsI64(raw_amount),
     timestamp |-> rec.timestamp,
     is_minted |-> TRUE,
     minted_time |-> 0,
     minted_signature |-> rec.signature]

NewRow(d, rec, raw_amount) ==
    [id |-> Len(d) + 1,
     signature |-> rec.signature,
     burner |-> rec.burner,
     amount |-> AsI64(raw_amount),
     timestamp |-> rec.timestamp,
     is_minted |-> FALSE,
     minted_time |-> NullTime,
     minted_signature |-> NullSig]

\* INSERT with no UNIQUE constraint on signature
execute_insert_nounique(d, rec, raw_amount) ==
    [ok |-> TRUE, dest |-> Append(d, NewRow(d, rec, raw_amount))]

\* INSERT OR REPLACE: an existing row of the signature is deleted first
execute_insert_replace(d, rec, raw_amount) ==
    LET keep == SelectSeq(d, LAMBDA r : r.signature # rec.signature)
    IN [ok |-> TRUE, dest |-> Append(keep, NewRow(d, rec, raw_amount))]

\* INSERT INTO burn_records: the UNIQUE constraint on signature rejects the
\* statement when a row with the signature exists
execute_insert(d, rec, raw_amount) ==
    IF \E k \in 1..Len(d) : d[k].signature = rec.signature
    THEN [ok |-> FALSE, dest |-> d]
    ELSE [ok |-> TRUE, dest |-> Append(d, NewRow(d, rec, raw_amount))]

\* BurnRecord as read back from a row
row_to_burn_record(row) ==
    [id |-> row.id,
     signature |-> row.signature,
     burner |-> row.burner,
     amount |-> AsU64(row.amount),
     timestamp |-> row.timestamp,
     is_minted |-> row.is_minted,
     minted_time |-> row.minted_time,
     minted_signature |-> row.minted_signature]

RECURSIVE SortAsc(_)
SortAsc(S) ==
    IF S = {} THEN <<>>
    ELSE LET m == CHOOSE r \in S : \A q \in S :
                      \/ r.timestamp < q.timestamp
                      \/ r.timestamp = q.timestamp /\ r.id <= q.id
         IN <<m>> \o SortAsc(S \ {m})

\* the query without `is_minted = FALSE`
get_pending_mints_all(d, min_amount) ==
    LET hits == {k \in 1..Len(d) : d[k].amount >= AsI64(min_amount)}
        sorted == SortAsc({d[k] : k \in hits})
    IN [k \in 1..Len(sorted) |-> row_to_burn_record(sorted[k])]

\* the query without `ORDER BY timestamp ASC`: rows come in rowid order
get_pending_mints_unordered(d, min_amount) ==
    LET hits == SelectSeq(d, LAMBDA r :
                    r.is_minted = FALSE /\ r.amount >= AsI64(min_amount))
    IN [k \in 1..Len(hits) |-> row_to_burn_record(hits[k])]

get_pending_mints(d, min_amount) ==
    LET hits == {k \in 1..Len(d) :
                    d[k].is_minted = FALSE /\ d[k].amount >= AsI64(min_amount)}
        sorted == SortAsc({d[k] : k \in hits})
    IN [k \in 1..Len(sorted) |-> row_to_burn_record(sorted[k])]

\* the UPDATE without its WHERE clause
mark_as_minted_all(d, signature, minted_signature, now) ==
    [k \in 1..Len(d) |->
        [d[k] EXCEPT !.is_minted = TRUE,
                     !.minted_time = now,
                     !.minted_signature = minted_signature]]

\* the UPDATE without `minted_signature = ?2`
mark_as_minted_nosig(d, signature, minted_signature, now) ==
    [k \in 1..Len(d) |->
        IF d[k].signature = signature
        THEN [d[k] EXCEPT !.is_minted = TRUE, !.minted_time = now]
        ELSE d[k]]

mark_as_minted(d, signature, minted_signature, now) ==
    [k \in 1..Len(d) |->
        IF d[k].signature = signature
        THEN [d[k] EXCEPT !.is_minted = TRUE,
                          !.minted_time = now,
                          !.minted_signature = minted_signature]
        ELSE d[k]]

\* what mark_as_minted returns when the UPDATE statement ran: the number of
\* rows changed is dropped, the result is Ok(())
mark_as_minted_result(d, signature) == "ok"

(***************************************************************************)
(* Migration runs                                                          *)
(***************************************************************************)
\* the comparison against a minimum that is one unit too low
BelowMinimum_off(raw_amount) == raw_amount < min_burn_amount - 1

\* raw_amount < self.config.min_burn_amount
BelowMinimum(raw_amount) == raw_amount < min_burn_amount

\* history of the calls made so far, kept in the specifications that turn
\* it on: result and mode of the previous migration run, the destination
\* store at the start of the current run, the last direct store call, the
\* destination store at the last interruption of a settlement run
NoCall == [signature |-> NullSig, minted_signature |-> NullSig,
           result |-> "none", before |-> <<>>]

\* a specification that keeps no history holds only the flag
NoHist(on) ==
    IF on
    THEN [on |-> on, prev_result |-> "none", prev_burner |-> NoBurner,
          dest0 |-> <<>>, calls |-> 0, call |-> NoCall,
          interrupted |-> FALSE, dest_int |-> <<>>,
          sims |-> {}, resim |-> FALSE]
    ELSE [on |-> on]

RunStart(p) ==
    IF hist.on
    THEN [hist EXCEPT !.prev_result = mig[p].result,
                      !.prev_burner = mig[p].burner,
                      !.dest0 = dest]
    ELSE hist

\* create_destination_table called before the source check
migrate_table_order(found, created) == TRUE

\* migrate without the call of create_destination_table
migrate_table_skip(found, created) == created

\* migrate: the destination table exists after create_destination_table,
\* which runs only when the source database file was found
migrate_table(found, created) == IF found THEN TRUE ELSE created

IdleMig == [pc |-> "idle", burner |-> NoBurner, rows |-> <<>>, i |-> 0,
            migrated |-> 0, skipped |-> 0, below |-> 0,
            result |-> "none", error |-> "none"]

\* migrate(None): the source is read with ORDER BY timestamp DESC
\* end of migrate_data: Ok(migrated_count)
FinishOk(m) == [m EXCEPT !.pc = "idle", !.rows = <<>>, !.i = 0, !.result = "ok"]

\* an error propagated by `?` or returned by migrate
FinishErr(m, e) == [m EXCEPT !.pc = "idle", !.rows = <<>>, !.i = 0,
                             !.result = "err", !.error = e]

\* migrate(None): source check, create_destination_table, then the source is
\* read with ORDER BY timestamp DESC
migrate_bulk(p) ==
    /\ mig[p].pc = "idle"
    /\ mig' = [mig EXCEPT ![p] =
                IF ~source_exists
                THEN FinishErr(IdleMig, "source")
                ELSE [IdleMig EXCEPT !.pc = "check", !.rows = source, !.i = 1]]
    /\ table_created' = migrate_table(source_exists, table_created)
    /\ hist' = RunStart(p)
    /\ UNCHANGED <<cli, inflight, display, source, source_exists, dest, ledger, st, clock>>

\* process_single_record that does not count the records below the minimum
process_single_record_check_nocount(p) ==
    LET m == mig[p] IN
    /\ m.pc = "check"
    /\ m.burner = NoBurner
    /\ m.i <= Len(m.rows)
    /\ LET record == m.rows[m.i]
           raw_amount == RawAmount(record.amount)
       IN mig' = [mig EXCEPT ![p] =
            IF ~record.decodes
            THEN FinishErr(m, "decode")
            ELSE IF Exists(dest, record.signature)
            THEN [m EXCEPT !.skipped = @ + 1, !.i = @ + 1]
            ELSE IF BelowMinimum(raw_amount)
            THEN [m EXCEPT !.i = @ + 1]
            ELSE [m EXCEPT !.pc = "insert"]]
    /\ UNCHANGED <<cli, inflight, display, source, source_exists, table_created, hist, dest, ledger, st, clock>>

\* process_single_record up to the INSERT: existence query and minimum check
process_single_record_check(p) ==
    LET m == mig[p] IN
    /\ m.pc = "check"
    /\ m.burner = NoBurner
    /\ m.i <= Len(m.rows)
    /\ LET record == m.rows[m.i]
           raw_amount == RawAmount(record.amount)
       IN mig' = [mig EXCEPT ![p] =
            IF ~record.decodes
            THEN FinishErr(m, "decode")
            ELSE IF Exists(dest, record.signature)
            THEN [m EXCEPT !.skipped = @ + 1, !.i = @ + 1]
            ELSE IF BelowMinimum(raw_amount)
            THEN [m EXCEPT !.below = @ + 1, !.i = @ + 1]
            ELSE [m EXCEPT !.pc = "insert"]]
    /\ UNCHANGED <<cli, inflight, display, source, source_exists, table_created, hist, dest, ledger, st, clock>>

\* process_single_record: the INSERT statement and its result
process_single_record_insert(p) ==
    LET m == mig[p] IN
    /\ m.pc = "insert"
    /\ m.burner = NoBurner
    /\ LET record == m.rows[m.i]
           raw_amount == RawAmount(record.amount)
           res == execute_insert(dest, record, raw_amount)
       IN /\ dest' = res.dest
          /\ mig' = [mig EXCEPT ![p] =
                IF res.ok
                THEN [m EXCEPT !.pc = "check", !.migrated = @ + 1, !.i = @ + 1]
                ELSE FinishErr(m, "unique")]
    /\ UNCHANGED <<cli, inflight, display, source, source_exists, table_created, hist, ledger, st, clock>>

\* the bulk loop has consumed the iterator
migrate_bulk_done(p) ==
    LET m == mig[p] IN
    /\ m.pc = "check"
    /\ m.burner = NoBurner
    /\ m.i > Len(m.rows)
    /\ mig' = [mig EXCEPT ![p] = FinishOk(m)]
    /\ UNCHANGED <<cli, inflight, display, source, source_exists, table_created, hist, dest, ledger, st, clock>>

\* migrate(Some(burner)): source check, create_destination_table, COUNT(*)
\* of the burner's rows, then the burner's rows in ORDER BY timestamp DESC
migrate_burner(p, b) ==
    /\ mig[p].pc = "idle"
    /\ LET rows == FilterBurner(source, b) IN
       mig' = [mig EXCEPT ![p] =
                IF ~source_exists
                THEN FinishErr([IdleMig EXCEPT !.burner = b], "source")
                ELSE IF Len(rows) = 0
                THEN [IdleMig EXCEPT !.burner = b, !.result = "ok"]
                ELSE [IdleMig EXCEPT !.pc = "check", !.burner = b,
                                     !.rows = rows, !.i = 1]]
    /\ table_created' = migrate_table(source_exists, table_created)
    /\ hist' = RunStart(p)
    /\ UNCHANGED <<cli, inflight, display, source, source_exists, dest, ledger, st, clock>>

\* single-burner loop of migrate_data up to the INSERT
migrate_data_check(p) ==
    LET m == mig[p] IN
    /\ m.pc = "check"
    /\ m.burner # NoBurner
    /\ m.i <= Len(m.rows)
    /\ LET record == m.rows[m.i]
           raw_amount == RawAmount(record.amount)
       IN mig' = [mig EXCEPT ![p] =
            IF ~record.decodes
            THEN FinishErr(m, "decode")
            ELSE IF Exists(dest, record.signature)
            THEN [m EXCEPT !.skipped = @ + 1, !.i = @ + 1]
            ELSE IF BelowMinimum(raw_amount)
            THEN [m EXCEPT !.i = @ + 1]
            ELSE [m EXCEPT !.pc = "insert"]]
    /\ UNCHANGED <<cli, inflight, display, source, source_exists, table_created, hist, dest, ledger, st, clock>>

\* single-burner loop of migrate_data: the INSERT statement, then break
migrate_data_insert(p) ==
    LET m == mig[p] IN
    /\ m.pc = "insert"
    /\ m.burner # NoBurner
    /\ LET record == m.rows[m.i]
           raw_amount == RawAmount(record.amount)
           res == execute_insert(dest, record, raw_amount)
       IN /\ dest' = res.dest
          /\ mig' = [mig EXCEPT ![p] =
                IF res.ok
                THEN FinishOk([m EXCEPT !.migrated = @ + 1])
                ELSE FinishErr(m, "unique")]
    /\ UNCHANGED <<cli, inflight, display, source, source_exists, table_created, hist, ledger, st, clock>>

\* the single-burner loop has consumed the iterator without a valid record
migrate_burner_done(p) ==
    LET m == mig[p] IN
    /\ m.pc = "check"
    /\ m.burner # NoBurner
    /\ m.i > Len(m.rows)
    /\ mig' = [mig EXCEPT ![p] = FinishOk(m)]
    /\ UNCHANGED <<cli, inflight, display, source, source_exists, table_created, hist, dest, ledger, st, clock>>

(***************************************************************************)
(* Target ledger                                                           *)
(***************************************************************************)
TxId(n) == "tx" \o ToString(n)

\* get_account that never finds the account
AtaExists_never(l, recipient) == FALSE

\* rpc_client.get_account(recipient_token_account) succeeds
AtaExists(l, recipient) == \E k \in 1..Len(l) : l[k].recipient = recipient

\* get_associated_token_address_with_program_id(recipient, token_mint,
\* token_program_id): the address derived from the wallet address
get_associated_token_address(wallet) == "ata:" \o wallet

\* create_associated_token_account(payer, wallet, mint, token program)
create_ata_ix(wallet) ==
    [op |-> "create_associated_token_account",
     account |-> get_associated_token_address(wallet),
     amount |-> 0]

\* token_instruction::mint_to(program, mint, destination, authority, amount)
mint_ix(destination, amount) ==
    [op |-> "mint_to", account |-> destination, amount |-> amount]

\* the mint instruction addressed to the wallet, not to its token account
MintTx_wallet(l, record) ==
    [id |-> TxId(Len(l) + 1),
     burn |-> record.signature,
     recipient |-> record.burner,
     amount |-> record.amount,
     instructions |->
        (IF AtaExists(l, record.burner) THEN <<>> ELSE <<create_ata_ix(record.burner)>>)
        \o <<mint_ix(record.burner, record.amount)>>]

\* the transaction mint_tokens builds for a record
MintTx(l, record) ==
    [id |-> TxId(Len(l) + 1),
     burn |-> record.signature,
     recipient |-> record.burner,
     amount |-> record.amount,
     instructions |->
        (IF AtaExists(l, record.burner) THEN <<>> ELSE <<create_ata_ix(record.burner)>>)
        \o <<mint_ix(get_associated_token_address(record.burner), record.amount)>>]

\* a mock signature that is seeded by the time of the call
simulate_mint_clock(record) ==
    "tk22" \o record.signature \o record.burner \o "mock"
           \o ToString(record.amount) \o "test" \o ToString(clock)

\* format!("tk22{:x}mock{:x}test", hash(signature, burner, "token2022"), amount)
simulate_mint(record) ==
    "tk22" \o record.signature \o record.burner \o "mock"
           \o ToString(record.amount) \o "test"

(***************************************************************************)
(* Settlement runs                                                         *)
(***************************************************************************)
IdleSt == [pc |-> "idle", auth |-> FALSE, pending |-> <<>>, i |-> 0,
           signature |-> NullSig]

\* process_pending_mints up to the loop; auth: mint_authority.is_some();
\* without the burn_records table get_pending_mints returns Err
process_pending_mints(auth) ==
    /\ st.pc = "idle"
    /\ LET pending_records == get_pending_mints(dest, min_burn_amount) IN
       st' = IF ~table_created \/ pending_records = <<>>
             THEN IdleSt
             ELSE [IdleSt EXCEPT !.pc = "mint", !.auth = auth,
                                 !.pending = pending_records, !.i = 1]
    /\ UNCHANGED <<cli, inflight, display, source, source_exists, table_created, hist, dest, ledger, mig, clock>>

\* history: the simulated mints made so far, and whether a record has been
\* simulated more than once
Simulated(record, id) ==
    IF hist.on
    THEN [hist EXCEPT !.sims = @ \cup {[signature |-> record.signature,
                                         burner |-> record.burner,
                                         amount |-> record.amount,
                                         id |-> id]},
                      !.resim = @ \/ \E s \in hist.sims :
                                        s.signature = record.signature]
    ELSE hist

\* mint_tokens with no mint authority: Ok(mock_signature), no transaction
mint_tokens_simulated ==
    /\ st.pc = "mint"
    /\ ~st.auth
    /\ LET id == simulate_mint(st.pending[st.i]) IN
       /\ st' = [st EXCEPT !.pc = "mark", !.signature = id]
       /\ hist' = Simulated(st.pending[st.i], id)
    /\ UNCHANGED <<cli, inflight, display, source, source_exists, table_created, dest, ledger, mig, clock>>

\* mint_tokens: send_and_confirm_transaction returns the confirmed signature
mint_tokens_confirmed ==
    /\ st.pc = "mint"
    /\ st.auth
    /\ Len(ledger) < MaxTx
    /\ LET tx == MintTx(ledger, st.pending[st.i]) IN
       /\ ledger' = Append(ledger, tx)
       /\ st' = [st EXCEPT !.pc = "mark", !.signature = tx.id]
    /\ UNCHANGED <<cli, inflight, display, source, source_exists, table_created, hist, dest, mig, clock>>

\* an Err arm that goes on to the next record without the delay
mint_tokens_failed_continue ==
    /\ st.pc = "mint"
    /\ st.auth
    /\ st' = IF st.i < Len(st.pending)
             THEN [st EXCEPT !.pc = "mint", !.i = @ + 1]
             ELSE IdleSt
    /\ UNCHANGED <<cli, inflight, display, source, source_exists, table_created, hist, dest, ledger, mig, clock>>

\* an Err of mint_tokens that is propagated and ends the run
mint_tokens_failed_abort ==
    /\ st.pc = "mint"
    /\ st.auth
    /\ st' = IdleSt
    /\ UNCHANGED <<cli, inflight, display, source, source_exists, table_created, hist, dest, ledger, mig, clock>>

\* mint_tokens returns Err: invalid address, blockhash or submission failure
mint_tokens_failed ==
    /\ st.pc = "mint"
    /\ st.auth
    /\ st' = [st EXCEPT !.pc = "sleep"]
    /\ UNCHANGED <<cli, inflight, display, source, source_exists, table_created, hist, dest, ledger, mig, clock>>

\* Ok(signature) arm: db.mark_as_minted succeeds
mark_ok ==
    /\ st.pc = "mark"
    /\ dest' = mark_as_minted(dest, st.pending[st.i].signature, st.signature, clock)
    /\ clock' = clock + 1
    /\ st' = [st EXCEPT !.pc = "sleep", !.signature = NullSig]
    /\ UNCHANGED <<cli, inflight, display, source, source_exists, table_created, hist, ledger, mig>>

\* Ok(signature) arm: db.mark_as_minted returns Err, which is only logged
mark_failed ==
    /\ st.pc = "mark"
    /\ st' = [st EXCEPT !.pc = "sleep", !.signature = NullSig]
    /\ UNCHANGED <<cli, inflight, display, source, source_exists, table_created, hist, dest, ledger, mig, clock>>

\* a loop that queries the pending records again after every record
sleep_next_refetch ==
    /\ st.pc = "sleep"
    /\ LET pending_records == get_pending_mints(dest, min_burn_amount) IN
       st' = IF pending_records = <<>>
             THEN IdleSt
             ELSE [st EXCEPT !.pc = "mint", !.pending = pending_records, !.i = 1]
    /\ UNCHANGED <<cli, inflight, display, source, source_exists, table_created, hist, dest, ledger, mig, clock>>

\* tokio::time::sleep(2s), then the next record or the end of the run
sleep_next ==
    /\ st.pc = "sleep"
    /\ st' = IF st.i < Len(st.pending)
             THEN [st EXCEPT !.pc = "mint", !.i = @ + 1]
             ELSE IdleSt
    /\ UNCHANGED <<cli, inflight, display, source, source_exists, table_created, hist, dest, ledger, mig, clock>>

\* the process is killed during a settlement run
crash ==
    /\ st.pc # "idle"
    /\ st' = IdleSt
    /\ UNCHANGED <<cli, inflight, display, source, source_exists, table_created, hist, dest, ledger, mig, clock>>

InitWith(max) ==
    /\ source \in Sources(max)
    /\ source_exists = TRUE
    /\ table_created = FALSE
    /\ hist = NoHist(FALSE)
    /\ dest = <<>>
    /\ ledger = <<>>
    /\ mig = [p \in Migrators |-> IdleMig]
    /\ st = IdleSt
    /\ clock = 1
    /\ inflight = {}
    /\ cli = NoCommand
    /\ display = NoDisplay

Migration(p) ==
    \/ migrate_bulk(p)
    \/ process_single_record_check(p)
    \/ process_single_record_insert(p)
    \/ migrate_bulk_done(p)
    \/ \E b \in Burners : migrate_burner(p, b)
    \/ migrate_data_check(p)
    \/ migrate_data_insert(p)
    \/ migrate_burner_done(p)

Settlement ==
    \/ \E auth \in BOOLEAN : process_pending_mints(auth)
    \/ mint_tokens_simulated
    \/ mint_tokens_confirmed
    \/ mint_tokens_failed
    \/ mark_ok
    \/ mark_failed
    \/ sleep_next
    \/ crash

(***************************************************************************)
(* Spec: one migration run at a time, interleaved with settlement runs.    *)
(***************************************************************************)
Init == InitWith(MaxEvents)

Next ==
    \/ Migration("A")
    \/ Settlement

Spec == Init /\ [][Next]_vars

(***************************************************************************)
(* SpecConc: two concurrently running migration runs and settlement runs.  *)
(***************************************************************************)
InitConc == InitWith(MaxConcEvents)

NextConc ==
    \/ \E p \in Migrators : Migration(p)
    \/ Settlement

SpecConc == InitConc /\ [][NextConc]_vars

(***************************************************************************)
(* SpecMig: migration runs one after the other, with the history of the    *)
(* previous run, over sources that may hold undecodable rows and a source  *)
(* database file that may be missing.                                      *)
(***************************************************************************)
\* the source database file is removed or put back between calls
source_file_change ==
    /\ source_exists' = ~source_exists
    /\ UNCHANGED <<cli, inflight, display, source, table_created, hist, dest, ledger, mig, st, clock>>

InitMig ==
    /\ source \in SourcesMalformed(MaxEvents)
    /\ source_exists \in BOOLEAN
    /\ table_created = FALSE
    /\ hist = NoHist(TRUE)
    /\ dest = <<>>
    /\ ledger = <<>>
    /\ mig = [p \in Migrators |-> IdleMig]
    /\ st = IdleSt
    /\ clock = 1
    /\ inflight = {}
    /\ cli = NoCommand
    /\ display = NoDisplay

NextMig ==
    \/ Migration("A")
    \/ source_file_change

SpecMig == InitMig /\ [][NextMig]_vars

(***************************************************************************)
(* SpecStore: migration runs and direct calls of Database::mark_as_minted  *)
(* with any signature, as made by any user of the store.                   *)
(***************************************************************************)
MintSignatures == {"txA", "txB"}

\* db.mark_as_minted(signature, minted_signature) on the existing table
mark_as_minted_call(signature, minted_signature) ==
    /\ table_created
    /\ hist.calls < MaxCalls
    /\ dest' = mark_as_minted(dest, signature, minted_signature, clock)
    /\ clock' = clock + 1
    /\ hist' = [hist EXCEPT !.calls = @ + 1,
                            !.call = [signature |-> signature,
                                      minted_signature |-> minted_signature,
                                      result |-> mark_as_minted_result(dest, signature),
                                      before |-> dest]]
    /\ UNCHANGED <<cli, inflight, display, source, source_exists, table_created, ledger, mig, st>>

InitStore ==
    /\ source \in Sources(MaxEvents)
    /\ source_exists = TRUE
    /\ table_created = FALSE
    /\ hist = NoHist(TRUE)
    /\ dest = <<>>
    /\ ledger = <<>>
    /\ mig = [p \in Migrators |-> IdleMig]
    /\ st = IdleSt
    /\ clock = 1
    /\ inflight = {}
    /\ cli = NoCommand
    /\ display = NoDisplay

NextStore ==
    \/ Migration("A")
    \/ \E i \in 1..MaxEvents, ms \in MintSignatures :
          mark_as_minted_call(SigName(i), ms)

SpecStore == InitStore /\ [][NextStore]_vars

(***************************************************************************)
(* SpecRun: migration runs and settlement runs with a mint authority, a    *)
(* process that is not killed and a store whose writes succeed.            *)
(* SpecLive: the same, where settlement runs keep being started, every     *)
(* started step of a run returns, and the ledger does not reject a         *)
(* submission forever.                                                     *)
(***************************************************************************)
NextRun ==
    \/ Migration("A")
    \/ process_pending_mints(TRUE)
    \/ mint_tokens_confirmed
    \/ mint_tokens_failed
    \/ mark_ok
    \/ sleep_next

SpecRun == Init /\ [][NextRun]_vars

Fairness ==
    /\ WF_vars(process_pending_mints(TRUE))
    /\ SF_vars(mint_tokens_confirmed)
    /\ WF_vars(mark_ok)
    /\ WF_vars(sleep_next)

SpecLive == Init /\ [][NextRun]_vars /\ Fairness

(***************************************************************************)
(* SpecFlight: settlement runs in real mode in which the blocking call     *)
(* send_and_confirm_transaction is split into the submission and its       *)
(* return; inflight holds the transactions submitted and not yet returned. *)
(***************************************************************************)
\* a submission that does not wait for the confirmation
mint_tokens_send_async ==
    /\ st.pc = "mint"
    /\ st.auth
    /\ Len(ledger) + Cardinality(inflight) < MaxTx
    /\ inflight' = inflight \cup {MintTx(ledger, st.pending[st.i])}
    /\ st' = [st EXCEPT !.pc = "sleep"]
    /\ UNCHANGED <<cli, display, source, source_exists, table_created, hist, dest, ledger, mig, clock>>

\* mint_tokens: the transaction is built, signed and sent; the call blocks
mint_tokens_send ==
    /\ st.pc = "mint"
    /\ st.auth
    /\ Len(ledger) + Cardinality(inflight) < MaxTx
    /\ inflight' = inflight \cup {MintTx(ledger, st.pending[st.i])}
    /\ st' = [st EXCEPT !.pc = "wait"]
    /\ UNCHANGED <<cli, display, source, source_exists, table_created, hist, dest, ledger, mig, clock>>

\* send_and_confirm_transaction returns Ok(signature): the transaction is
\* confirmed on the ledger
mint_tokens_return_ok ==
    /\ st.pc = "wait"
    /\ \E tx \in inflight :
          /\ tx.burn = st.pending[st.i].signature
          /\ ledger' = Append(ledger, tx)
          /\ inflight' = inflight \ {tx}
          /\ st' = [st EXCEPT !.pc = "mark", !.signature = tx.id]
    /\ UNCHANGED <<cli, display, source, source_exists, table_created, hist, dest, mig, clock>>

\* send_and_confirm_transaction returns Err: the transaction is rejected
mint_tokens_return_err ==
    /\ st.pc = "wait"
    /\ \E tx \in inflight :
          /\ tx.burn = st.pending[st.i].signature
          /\ inflight' = inflight \ {tx}
    /\ st' = [st EXCEPT !.pc = "sleep"]
    /\ UNCHANGED <<cli, display, source, source_exists, table_created, hist, dest, ledger, mig, clock>>

NextFlight ==
    \/ Migration("A")
    \/ process_pending_mints(TRUE)
    \/ mint_tokens_send
    \/ mint_tokens_return_ok
    \/ mint_tokens_return_err
    \/ mint_tokens_failed
    \/ mark_ok
    \/ mark_failed
    \/ sleep_next

SpecFlight == Init /\ [][NextFlight]_vars

(***************************************************************************)
(* SpecInterrupt: settlement runs in real mode that may be interrupted     *)
(* between two records, that is during the pacing delay.                   *)
(***************************************************************************)
\* the process is killed during tokio::time::sleep, between two records
interrupt_between ==
    /\ st.pc = "sleep"
    /\ st' = IdleSt
    /\ hist' = IF hist.on
               THEN [hist EXCEPT !.interrupted = TRUE, !.dest_int = dest]
               ELSE hist
    /\ UNCHANGED <<cli, inflight, display, source, source_exists, table_created, dest, ledger, mig, clock>>

InitInterrupt ==
    /\ source \in Sources(MaxEvents)
    /\ source_exists = TRUE
    /\ table_created = FALSE
    /\ hist = NoHist(TRUE)
    /\ dest = <<>>
    /\ ledger = <<>>
    /\ mig = [p \in Migrators |-> IdleMig]
    /\ st = IdleSt
    /\ clock = 1
    /\ inflight = {}
    /\ cli = NoCommand
    /\ display = NoDisplay

NextInterrupt ==
    \/ Migration("A")
    \/ process_pending_mints(TRUE)
    \/ mint_tokens_confirmed
    \/ mint_tokens_failed
    \/ mark_ok
    \/ sleep_next
    \/ interrupt_between

SpecInterrupt == InitInterrupt /\ [][NextInterrupt]_vars

(***************************************************************************)
(* SpecDisplay: the display form of a raw amount, as logged for a record.  *)
(* Amounts are taken at their real scale: the small ones and some of the   *)
(* size of min_burn_amount in config.rs.                                   *)
(***************************************************************************)
DisplayAmounts ==
    (0..MaxDisplayed) \cup
    {999999, DisplayScale, DisplayScale + 1, 123456789, 420 * DisplayScale,
     420 * DisplayScale + 1, 420690000, 2147483647}

\* info!("Processing mint: ...", record.amount_as_decimal(), record.amount)
log_amount ==
    /\ display.decimal = NoDecimal
    /\ display' = [display EXCEPT !.decimal = amount_as_decimal(display.raw)]
    /\ UNCHANGED <<cli, inflight, source, source_exists, table_created, hist, dest, ledger, mig, st, clock>>

InitDisplay ==
    /\ source = <<>>
    /\ source_exists = TRUE
    /\ table_created = FALSE
    /\ hist = NoHist(FALSE)
    /\ dest = <<>>
    /\ ledger = <<>>
    /\ mig = [p \in Migrators |-> IdleMig]
    /\ st = IdleSt
    /\ clock = 1
    /\ inflight = {}
    /\ cli = NoCommand
    /\ display \in {[raw |-> a, decimal |-> NoDecimal] : a \in DisplayAmounts}

NextDisplay == log_amount

SpecDisplay == InitDisplay /\ [][NextDisplay]_vars

(***************************************************************************)
(* SpecFrame: bulk migration runs and direct calls of                      *)
(* Database::mark_as_minted with a signature that is or is not in the      *)
(* store.                                                                  *)
(***************************************************************************)
NextFrame ==
    \/ migrate_bulk("A")
    \/ process_single_record_check("A")
    \/ process_single_record_insert("A")
    \/ migrate_bulk_done("A")
    \/ \E i \in 1..MaxEvents : mark_as_minted_call(SigName(i), "txA")

SpecFrame == InitStore /\ [][NextFrame]_vars

(***************************************************************************)
(* SpecAmounts: migration runs over sources whose amount columns hold      *)
(* text, numbers or nothing.                                               *)
(***************************************************************************)
InitAmounts ==
    /\ source \in SourcesDecoded(MaxEvents)
    /\ source_exists = TRUE
    /\ table_created = FALSE
    /\ hist = NoHist(FALSE)
    /\ dest = <<>>
    /\ ledger = <<>>
    /\ mig = [p \in Migrators |-> IdleMig]
    /\ st = IdleSt
    /\ clock = 1
    /\ inflight = {}
    /\ cli = NoCommand
    /\ display = NoDisplay

NextAmounts == Migration("A")

SpecAmounts == InitAmounts /\ [][NextAmounts]_vars

(***************************************************************************)
(* SpecSim: settlement runs in simulation mode (no mint authority), with   *)
(* the history of the simulated mints.                                     *)
(***************************************************************************)
InitSim ==
    /\ source \in Sources(MaxEvents)
    /\ source_exists = TRUE
    /\ table_created = FALSE
    /\ hist = NoHist(TRUE)
    /\ dest = <<>>
    /\ ledger = <<>>
    /\ mig = [p \in Migrators |-> IdleMig]
    /\ st = IdleSt
    /\ clock = 1
    /\ inflight = {}
    /\ cli = NoCommand
    /\ display = NoDisplay

NextSim ==
    \/ Migration("A")
    \/ process_pending_mints(FALSE)
    \/ mint_tokens_simulated
    \/ mark_ok
    \/ mark_failed
    \/ sleep_next

SpecSim == InitSim /\ [][NextSim]_vars

(***************************************************************************)
(* SpecPipeline: the combined runs of main (`run`, or no subcommand): one  *)
(* migration, then one settlement run, then the report; cli is the step    *)
(* the command has reached.  The source may hold undecodable rows and the  *)
(* source database file may be missing.                                    *)
(***************************************************************************)
\* Commands::Run / None: DatabaseMigrator::new, "Step 1"
run_command ==
    /\ cli = NoCommand
    /\ mig["A"].pc = "idle"
    /\ st.pc = "idle"
    /\ cli' = "step1"
    /\ mig' = [mig EXCEPT !["A"] = IdleMig]
    /\ UNCHANGED <<inflight, display, source, source_exists, table_created, hist,
                   dest, ledger, st, clock>>

\* migrator.migrate(burner).await, called once by the command
run_migrate ==
    /\ cli = "step1"
    /\ mig["A"].pc = "idle" => mig["A"].result = "none"
    /\ Migration("A")

\* an Err arm that logs the failed migration and goes on to step 2
run_migrate_err_continue ==
    /\ cli = "step1"
    /\ mig["A"].pc = "idle"
    /\ mig["A"].result = "err"
    /\ cli' = "step2"
    /\ UNCHANGED <<inflight, display, source, source_exists, table_created, hist,
                   dest, ledger, mig, st, clock>>

\* Err(e) arm of the match on migrate: return Err(e), the command ends
run_migrate_err ==
    /\ cli = "step1"
    /\ mig["A"].pc = "idle"
    /\ mig["A"].result = "err"
    /\ cli' = NoCommand
    /\ UNCHANGED <<inflight, display, source, source_exists, table_created, hist,
                   dest, ledger, mig, st, clock>>

\* Ok(count) arm of the match on migrate, Database::new, "Step 2"
run_migrate_ok ==
    /\ cli = "step1"
    /\ mig["A"].pc = "idle"
    /\ mig["A"].result = "ok"
    /\ cli' = "step2"
    /\ UNCHANGED <<inflight, display, source, source_exists, table_created, hist,
                   dest, ledger, mig, st, clock>>

\* TokenMinter::new and minter.process_pending_mints() up to its loop, as in
\* process_pending_mints(auth)
run_process_pending_mints(auth) ==
    /\ cli = "step2"
    /\ st.pc = "idle"
    /\ LET pending_records == get_pending_mints(dest, min_burn_amount) IN
       st' = IF ~table_created \/ pending_records = <<>>
             THEN IdleSt
             ELSE [IdleSt EXCEPT !.pc = "mint", !.auth = auth,
                                 !.pending = pending_records, !.i = 1]
    /\ cli' = "minting"
    /\ UNCHANGED <<inflight, display, source, source_exists, table_created, hist,
                   dest, ledger, mig, clock>>

\* the loop of process_pending_mints called by the command
run_mint ==
    /\ cli = "minting"
    /\ \/ mint_tokens_simulated
       \/ mint_tokens_confirmed
       \/ mint_tokens_failed
       \/ mark_ok
       \/ mark_failed
       \/ sleep_next

\* process_pending_mints has returned: "Step 3", the report, Ok(())
run_generate ==
    /\ cli = "minting"
    /\ st.pc = "idle"
    /\ cli' = NoCommand
    /\ UNCHANGED <<inflight, display, source, source_exists, table_created, hist,
                   dest, ledger, mig, st, clock>>

InitPipeline ==
    /\ source \in SourcesMalformed(MaxConcEvents)
    /\ source_exists \in BOOLEAN
    /\ table_created = FALSE
    /\ hist = NoHist(FALSE)
    /\ dest = <<>>
    /\ ledger = <<>>
    /\ mig = [p \in Migrators |-> IdleMig]
    /\ st = IdleSt
    /\ clock = 1
    /\ inflight = {}
    /\ cli = NoCommand
    /\ display = NoDisplay

NextPipeline ==
    \/ run_command
    \/ run_migrate
    \/ run_migrate_err
    \/ run_migrate_ok
    \/ \E auth \in BOOLEAN : run_process_pending_mints(auth)
    \/ run_mint
    \/ run_generate
    \/ source_file_change

SpecPipeline == InitPipeline /\ [][NextPipeline]_vars

(***************************************************************************)
(* Properties                                                              *)
(***************************************************************************)
Rows == {dest[k] : k \in 1..Len(dest)}
Events == {source[k] : k \in 1..Len(source)}
Txs == {ledger[k] : k \in 1..Len(ledger)}
Signatures == {e.signature : e \in Events}

IsMinted(d, sig) == \E k \in 1..Len(d) : d[k].signature = sig /\ d[k].is_minted

\* C1: each burn signature is credited by at most one confirmed mint
\* transaction on the target ledger, also when the process crashes or
\* mark_as_minted fails after the ledger confirmed the mint.
ExactlyOnceCrediting ==
    \A sig \in Signatures :
        Cardinality({k \in 1..Len(ledger) : ledger[k].burn = sig}) <= 1

\* C2: a settlement run never submits a mint for a record whose status is
\* Minted: whenever a run is about to call mint_tokens for a record, that
\* record is not Minted in the destination store.
SettlementTerminality ==
    st.pc = "mint" => ~IsMinted(dest, st.pending[st.i].signature)

\* a later run is about to submit while another record is already Minted
SettlementTerminalityWitness ==
    /\ st.pc = "mint"
    /\ st.i = 1
    /\ \E r \in Rows : r.is_minted

\* C3: every Minted record has a confirmed mint transaction on the target
\* ledger for its burn, and its minted_signature is that transaction's id.
MintedOnlyByConfirmedMint ==
    \A r \in Rows :
        r.is_minted =>
            \E tx \in Txs : tx.burn = r.signature /\ tx.id = r.minted_signature

\* C4: while a settlement run without mint authority is in progress, no step
\* changes is_minted, minted_time or minted_signature of any record.
SimulationNonMutation ==
    [][(st.pc # "idle" /\ ~st.auth) =>
          \A k \in 1..Len(dest) :
              /\ k <= Len(dest')
              /\ dest'[k].is_minted = dest[k].is_minted
              /\ dest'[k].minted_time = dest[k].minted_time
              /\ dest'[k].minted_signature = dest[k].minted_signature]_vars

\* C5: no two records of the destination store have the same signature,
\* under any interleaving of two concurrent migration runs.
SignatureUniqueness ==
    \A r \in Rows : CountSig(dest, r.signature) = 1

\* two runs have both executed the INSERT for one signature
SignatureUniquenessWitness ==
    \E p, q \in Migrators :
        /\ p # q
        /\ mig[p].migrated >= 1
        /\ mig[q].error = "unique"

\* C6: an insert of a signature that is already present is reported as a
\* duplicate and counted as skipped; it never fails the migration run.
InsertPendingAtomic ==
    \A p \in Migrators : mig[p].error # "unique"

\* C7: every record read from the destination store is Minted iff
\* minted_time and minted_signature are both present, and Pending iff both
\* are absent.
StatusConsistency ==
    \A row \in Rows :
        LET r == row_to_burn_record(row) IN
        /\ r.is_minted <=> (r.minted_time # NullTime /\ r.minted_signature # NullSig)
        /\ ~r.is_minted <=> (r.minted_time = NullTime /\ r.minted_signature = NullSig)

\* the store holds a Minted and a Pending record
StatusConsistencyWitness ==
    /\ \E r \in Rows : r.is_minted
    /\ \E r \in Rows : ~r.is_minted

\* C8: once a record is Minted, no step of migration or settlement sets it
\* back to Pending.
MintedIsTerminal ==
    [][\A sig \in Signatures : IsMinted(dest, sig) => IsMinted(dest', sig)]_vars

\* a migration run is about to execute its INSERT for a Minted record
MintedIsTerminalWitness ==
    \E p \in Migrators :
        /\ mig[p].pc = "insert"
        /\ IsMinted(dest, mig[p].rows[mig[p].i].signature)

\* C9: every record of the destination store has amount >= min_burn_amount,
\* and no source event with amount < min_burn_amount has a record.
ThresholdInvariant ==
    /\ \A row \in Rows : row_to_burn_record(row).amount >= min_burn_amount
    /\ \A e \in Events : e.amount < min_burn_amount => ~Exists(dest, e.signature)

\* a run has skipped an event below the minimum and the store holds a record
\* whose amount is stored as a negative i64
ThresholdInvariantWitness ==
    /\ mig["A"].below >= 1
    /\ \E row \in Rows : row.amount < 0

\* C10: after a bulk migration run has returned Ok, every source event with
\* amount >= min_burn_amount has exactly one record in the destination store.
BulkThresholdCompleteness ==
    \A p \in Migrators :
        (mig[p].pc = "idle" /\ mig[p].result = "ok" /\ mig[p].burner = NoBurner) =>
            \A e \in Events :
                e.amount >= min_burn_amount => CountSig(dest, e.signature) = 1

\* the last migration run of A has returned
RunEnded == mig["A"].pc = "idle" /\ mig["A"].result # "none"

\* C11: a bulk migration run that follows a successful bulk migration run on
\* the unchanged source returns Ok(0) and leaves the destination store as
\* it was at its start.
BulkIdempotent ==
    (/\ RunEnded
     /\ mig["A"].burner = NoBurner
     /\ mig["A"].error # "source"
     /\ hist.prev_result = "ok"
     /\ hist.prev_burner = NoBurner) =>
        /\ mig["A"].result = "ok"
        /\ mig["A"].migrated = 0
        /\ dest = hist.dest0

\* a second bulk run has returned over a store that holds records
BulkIdempotentWitness ==
    /\ RunEnded
    /\ mig["A"].burner = NoBurner
    /\ mig["A"].result = "ok"
    /\ hist.prev_result = "ok"
    /\ hist.prev_burner = NoBurner
    /\ mig["A"].skipped >= 1
    /\ Len(dest) >= 1

\* C12: a single-burner run that follows a successful single-burner run for
\* the same burner leaves the destination store as it was at its start.
BurnerIdempotent ==
    (/\ RunEnded
     /\ mig["A"].result = "ok"
     /\ mig["A"].burner # NoBurner
     /\ hist.prev_result = "ok"
     /\ hist.prev_burner = mig["A"].burner) =>
        dest = hist.dest0

\* the burner's rows that are new at the start of the run and have
\* amount >= min_burn_amount, by position in the newest-first order
Candidates(rows) ==
    {j \in 1..Len(rows) :
        /\ ~Exists(hist.dest0, rows[j].signature)
        /\ rows[j].amount >= min_burn_amount}

\* C13: a single-burner run that returns Ok has inserted exactly the first
\* event, newest first, that was not in the destination store and has
\* amount >= min_burn_amount, and nothing else; with no such event it has
\* inserted nothing.
SingleBurnerSelection ==
    (RunEnded /\ mig["A"].result = "ok" /\ mig["A"].burner # NoBurner) =>
        LET rows == FilterBurner(source, mig["A"].burner)
            cand == Candidates(rows)
        IN IF cand = {}
           THEN dest = hist.dest0
           ELSE LET j == CHOOSE x \in cand : \A y \in cand : x <= y
                IN dest = Append(hist.dest0,
                                 NewRow(hist.dest0, rows[j], RawAmount(rows[j].amount)))

\* C19: a migrate call made while the source database file is missing
\* returns an error and writes nothing: no table creation, no insert.
SourceUnavailable ==
    [][(mig["A"].pc = "idle" /\ mig'["A"] # mig["A"] /\ ~source_exists) =>
          /\ mig'["A"].pc = "idle"
          /\ mig'["A"].result = "err"
          /\ mig'["A"].error = "source"
          /\ dest' = dest
          /\ table_created' = table_created]_vars

\* migrate has returned the source error on a store without the table
SourceUnavailableWitness ==
    /\ mig["A"].error = "source"
    /\ ~source_exists
    /\ ~table_created

\* C20: a source row that cannot be decoded does not abort a bulk run: the
\* run does not end with the decode error, and every decodable row with an
\* amount in min_burn_amount..u64::MAX has a record when the run has ended.
MalformedRowContainment ==
    (RunEnded /\ mig["A"].burner = NoBurner /\ mig["A"].error # "source") =>
        /\ mig["A"].error # "decode"
        /\ \A e \in Events :
              (e.decodes /\ e.amount >= min_burn_amount /\ e.amount <= U64Max) =>
                  Exists(dest, e.signature)

\* a mark_as_minted call has been made directly on the store
Called == hist.call.result # "none"

\* C14: a mark_as_minted call for a record that is already Minted leaves its
\* minted_time and minted_signature at the stored values.
MarkKeepsMinted ==
    Called =>
        \A k \in 1..Len(hist.call.before) :
            (/\ hist.call.before[k].signature = hist.call.signature
             /\ hist.call.before[k].is_minted) =>
                /\ dest[k].minted_time = hist.call.before[k].minted_time
                /\ dest[k].minted_signature = hist.call.before[k].minted_signature

\* C15: a mark_as_minted call for a signature with no record returns an
\* error and leaves the store unchanged.
MarkNotFound ==
    (Called /\ ~Exists(hist.call.before, hist.call.signature)) =>
        /\ hist.call.result = "err"
        /\ SubSeq(dest, 1, Len(hist.call.before)) = hist.call.before

PendingRow(d, sig) ==
    \E k \in 1..Len(d) :
        /\ d[k].signature = sig
        /\ ~d[k].is_minted
        /\ d[k].minted_time = NullTime
        /\ d[k].minted_signature = NullSig

\* C16: when the mint attempt for a record fails, the record stays Pending
\* with minted_time and minted_signature absent, and the run goes on to the
\* next record of its pending list.
FailureContainment ==
    [][/\ (st.pc = "mint" /\ st'.pc # "mint" /\ st'.pc # "mark") =>
            /\ st'.pc = "sleep"
            /\ st'.i = st.i
            /\ st'.pending = st.pending
            /\ dest' = dest
            /\ PendingRow(dest', st.pending[st.i].signature)
       /\ (st.pc = "sleep" /\ st' # st /\ st.i < Len(st.pending)) =>
            /\ st'.pc = "mint"
            /\ st'.i = st.i + 1
            /\ st'.pending = st.pending]_vars

\* the run is at its second record after the attempt for the first failed
FailureContainmentWitness ==
    /\ st.pc = "mint"
    /\ st.i = 2
    /\ PendingRow(dest, st.pending[1].signature)

\* C17: in real mode a successful status update after a confirmed mint
\* changes exactly the record of the confirmed mint, which was Pending, to
\* Minted with minted_signature the non-empty id of the confirmed
\* transaction and minted_time set; every other record is unchanged.
SuccessTransition ==
    [][(st.pc = "mark" /\ st.auth /\ st' # st /\ dest' # dest) =>
          LET rec == st.pending[st.i]
              tx == ledger[Len(ledger)]
          IN /\ tx.burn = rec.signature
             /\ tx.id = st.signature
             /\ st.signature # NullSig
             /\ st.signature # ""
             /\ Len(dest') = Len(dest)
             /\ PendingRow(dest, rec.signature)
             /\ \A k \in 1..Len(dest) :
                   dest'[k] = IF dest[k].signature = rec.signature
                              THEN [dest[k] EXCEPT !.is_minted = TRUE,
                                                   !.minted_time = clock,
                                                   !.minted_signature = tx.id]
                              ELSE dest[k]
             /\ clock # NullTime]_vars

\* a record is Minted with a ledger transaction id while another is Pending
SuccessTransitionWitness ==
    /\ \E r \in Rows : \E tx \in Txs :
          r.is_minted /\ r.minted_signature = tx.id /\ tx.burn = r.signature
    /\ \E r \in Rows : ~r.is_minted

AllSignatures == {SigName(i) : i \in 1..MaxEvents}

\* C18: when settlement runs are started again and again in real mode and
\* the ledger eventually confirms, every Pending record is eventually Minted.
EventualSettlement ==
    \A sig \in AllSignatures :
        (Exists(dest, sig) /\ ~IsMinted(dest, sig)) ~> IsMinted(dest, sig)

\* C21: the pending list of a settlement run is in ascending timestamp
\* order and the run submits its records in list order, one position at a
\* time, so no record is submitted after a record with a later timestamp.
FifoSettlementOrder ==
    [][/\ st.pc # "idle" =>
            \A a, b \in 1..Len(st.pending) :
                a < b => st.pending[a].timestamp <= st.pending[b].timestamp
       /\ (st.pc # "idle" /\ st'.pc # "idle") =>
            /\ st'.pending = st.pending
            /\ st'.i \in {st.i, st.i + 1}
       /\ (st.pc = "idle" /\ st'.pc # "idle") => st'.i = 1]_vars

\* the run is at its second record, which was inserted before the first
FifoSettlementOrderWitness ==
    /\ st.pc = "mint"
    /\ st.i = 2
    /\ st.pending[1].id > st.pending[2].id
    /\ st.pending[1].timestamp < st.pending[2].timestamp

\* C22: at most one mint submission of a settlement run is in flight; a
\* submission starts only when none is in flight, the next record is taken
\* up only from the pacing delay, and the pacing delay is entered only from
\* the status update or from a mint attempt that returned a failure.
OneInFlight ==
    /\ [](Cardinality(inflight) <= 1)
    /\ [][/\ (inflight' # inflight /\ inflight' # {}) =>
                (inflight = {} /\ st.pc = "mint")
          /\ (st'.pc = "mint" /\ st' # st /\ st'.i > 1) =>
                (st.pc = "sleep" /\ inflight = {} /\ st'.i = st.i + 1)
          /\ (st'.pc = "sleep" /\ st' # st) =>
                \/ st.pc = "mark"
                \/ st.pc \in {"mint", "wait"} /\ inflight' = {}]_vars

\* the submission for the second record is in flight
OneInFlightWitness ==
    /\ st.pc = "wait"
    /\ st.i = 2
    /\ Cardinality(inflight) = 1

\* the transactions submitted so far: confirmed or still in flight
Submissions == Txs \cup inflight

MintIndexes(tx) ==
    {k \in 1..Len(tx.instructions) : tx.instructions[k].op = "mint_to"}

CreateIndexes(tx) ==
    {k \in 1..Len(tx.instructions) :
        tx.instructions[k].op = "create_associated_token_account"}

\* C26: every submitted transaction has exactly one mint instruction; its
\* amount is the amount of the record it was built for, as read from the
\* store, and its destination is the token account derived from that
\* record's burner.
MintAmountAndRecipient ==
    \A tx \in Submissions :
        \E row \in Rows :
            /\ row.signature = tx.burn
            /\ Cardinality(MintIndexes(tx)) = 1
            /\ \A k \in MintIndexes(tx) :
                  /\ tx.instructions[k].amount = row_to_burn_record(row).amount
                  /\ tx.instructions[k].account =
                        get_associated_token_address(row_to_burn_record(row).burner)

\* two mints to two different burners have been submitted
MintAmountAndRecipientWitness ==
    \E t1, t2 \in Submissions :
        /\ t1.recipient # t2.recipient
        /\ t1.burn # t2.burn

\* the account was created by a transaction confirmed among the first n
Created(account, n) ==
    \E j \in 1..n : \E c \in CreateIndexes(ledger[j]) :
        ledger[j].instructions[c].account = account

\* a transaction creates the account it mints to, before the mint instruction
CreatesFirst(tx) ==
    /\ Cardinality(CreateIndexes(tx)) = 1
    /\ \A c \in CreateIndexes(tx) : \A k \in MintIndexes(tx) :
          /\ c < k
          /\ tx.instructions[c].account = tx.instructions[k].account

Pacing ==
    [][/\ (st'.pc = "mint" /\ st' # st /\ st'.i > 1) =>
            (st.pc = "sleep" /\ st'.i = st.i + 1)
       /\ (st.pc = "mint" /\ st' # st) => st'.pc \in {"mark", "sleep"}
       /\ (st.pc = "mark" /\ st' # st) => st'.pc = "sleep"]_vars

\* the run is in the pacing delay after a confirmed and recorded mint, with
\* another record to come
PacingWitness ==
    /\ st.pc = "sleep"
    /\ st.i = 1
    /\ Len(st.pending) >= 2
    /\ IsMinted(dest, st.pending[1].signature)

\* C23: after a settlement run was interrupted between two records, every
\* record that was Minted at the interruption is Minted with the same
\* minted_signature, every record that was Pending at the interruption and
\* is still Pending is in the pending list of a run that starts, and no burn
\* signature has two confirmed mints.
InterruptionBetweenRecords ==
    /\ [](hist.interrupted =>
            \A k \in 1..Len(hist.dest_int) :
                hist.dest_int[k].is_minted =>
                    /\ dest[k].is_minted
                    /\ dest[k].minted_signature = hist.dest_int[k].minted_signature)
    /\ [](\A sig \in AllSignatures :
            Cardinality({k \in 1..Len(ledger) : ledger[k].burn = sig}) <= 1)
    /\ [][(hist.interrupted /\ st.pc = "idle" /\ st'.pc # "idle") =>
            \A k \in 1..Len(hist.dest_int) :
                (~hist.dest_int[k].is_minted /\ ~dest[k].is_minted) =>
                    \E j \in 1..Len(st'.pending) :
                        st'.pending[j].signature = dest[k].signature]_vars

\* C24: the display form of a raw amount has at most six fractional digits
\* and scales back by 10^6 to the raw amount it was made from.
AmountDisplayRoundTrip ==
    display.decimal # NoDecimal =>
        /\ display.decimal.scale <= 6
        /\ Rescale(display.decimal) = display.raw

\* an amount above 420 tokens with a digit in the sixth fractional place
\* has been displayed
AmountDisplayRoundTripWitness ==
    /\ display.raw = 420 * DisplayScale + 1
    /\ display.decimal = [mantissa |-> 420 * DisplayScale + 1, scale |-> 6]

\* C28: a single-burner run over a burner whose events all are in the
\* destination store already or are below min_burn_amount, or who has no
\* event, returns Ok(0) and leaves the destination store as it was.
SingleBurnerNoQualifying ==
    (/\ RunEnded
     /\ mig["A"].burner # NoBurner
     /\ mig["A"].error # "source"
     /\ \A e \in Events :
           e.burner = mig["A"].burner =>
               \/ e.decodes /\ Exists(hist.dest0, e.signature)
               \/ e.amount < min_burn_amount) =>
        /\ mig["A"].result = "ok"
        /\ mig["A"].migrated = 0
        /\ dest = hist.dest0

\* C29: during a bulk run the three tallies count the events processed so
\* far, one tally per event; when the run returns Ok they sum to the number
\* of source events and the migrated count is the number of records the run
\* inserted.
BulkTalliesPartition ==
    LET m == mig["A"]
        tallies == m.migrated + m.skipped + m.below
    IN /\ (m.pc = "check" /\ m.burner = NoBurner) => tallies = m.i - 1
       /\ (m.pc = "insert" /\ m.burner = NoBurner) => tallies = m.i - 1
       /\ (RunEnded /\ m.burner = NoBurner /\ m.result = "ok") =>
            /\ tallies = Len(source)
            /\ m.migrated = Len(dest) - Len(hist.dest0)

\* a bulk run has returned with one event in each tally
BulkTalliesPartitionWitness ==
    /\ RunEnded
    /\ mig["A"].burner = NoBurner
    /\ mig["A"].result = "ok"
    /\ mig["A"].migrated >= 1
    /\ mig["A"].skipped + mig["A"].below >= 1

\* C30: a destination store error ends the phase it is raised in and
\* changes no record: a migration run whose INSERT fails returns the error
\* with the store unchanged, and a settlement run whose status update fails
\* ends there with the store unchanged.
StoreErrorsEndPhase ==
    [][/\ \A p \in Migrators :
            (mig[p].pc = "insert" /\ mig'[p].error = "unique") =>
                /\ mig'[p].pc = "idle"
                /\ mig'[p].result = "err"
                /\ dest' = dest
       /\ (st.pc = "mark" /\ st' # st /\ dest' = dest) => st'.pc = "idle"]_vars

\* C31: in a combined run the settlement phase starts only after the run's
\* migration has returned Ok, no settlement step and no ledger submission is
\* made before that, and a run whose migration returned an error ends
\* without a settlement step or a submission.
PipelineOrdering ==
    [][/\ (cli # "minting" /\ cli' = "minting") =>
            (mig["A"].pc = "idle" /\ mig["A"].result = "ok")
       /\ (cli # NoCommand /\ (st' # st \/ ledger' # ledger)) =>
            /\ cli \in {"step2", "minting"}
            /\ mig["A"].pc = "idle"
            /\ mig["A"].result = "ok"
       /\ (cli = "step1" /\ mig["A"].pc = "idle" /\ mig["A"].result = "err") =>
            /\ cli' \in {"step1", NoCommand}
            /\ st' = st
            /\ ledger' = ledger]_vars

\* a combined run has ended on a failed migration while the store holds a
\* Pending record at or above the threshold, and no settlement run started
PipelineOrderingWitness ==
    /\ cli = NoCommand
    /\ mig["A"].result = "err"
    /\ st.pc = "idle"
    /\ \E row \in Rows : ~row.is_minted /\ row.amount >= min_burn_amount

\* C32: every migration run that gets past the source check has created the
\* burn_records table and its indexes, if absent, before its first insert,
\* and this bootstrap leaves the records of an existing table unchanged:
\* the step that starts a run yields the table and changes no record, and
\* every step that changes the store finds the table.
SchemaBootstrap ==
    [][/\ (mig["A"].pc = "idle" /\ mig'["A"] # mig["A"] /\ source_exists) =>
            /\ table_created'
            /\ dest' = dest
       /\ (mig["A"].pc # "idle" \/ dest' # dest) => table_created]_vars

\* a run has started on a table that held records and is about to insert
SchemaBootstrapWitness ==
    /\ mig["A"].pc = "insert"
    /\ table_created
    /\ Len(hist.dest0) >= 1
    /\ dest = hist.dest0

RecordLifecycle ==
    [][/\ \A k \in 1..Len(dest) : Exists(dest', dest[k].signature)
       /\ Len(dest') >= Len(dest)
       /\ \A j \in 1..Len(dest') :
             ~Exists(dest, dest'[j].signature) =>
                /\ mig["A"].pc = "insert"
                /\ mig'["A"] # mig["A"]
                /\ dest'[j].signature = mig["A"].rows[mig["A"].i].signature
                /\ ~dest'[j].is_minted
                /\ dest'[j].minted_time = NullTime
                /\ dest'[j].minted_signature = NullSig]_vars

\* a migration run has inserted a record into a store whose earlier record
\* was settled in between
RecordLifecycleWitness ==
    /\ mig["A"].pc = "check"
    /\ mig["A"].migrated >= 1
    /\ Len(dest) >= 2
    /\ dest[1].is_minted
    /\ ~dest[Len(dest)].is_minted
    /\ dest[Len(dest)].minted_signature = NullSig

\* C35: a step of a migration run changes no record that is already in the
\* store (status, minted_time, minted_signature, amount, burner and the
\* other columns stay as they are), so a migration run made after a
\* settlement run does not turn a Minted record back to Pending.
MigrationKeepsRecords ==
    [][(\E p \in Migrators : mig'[p] # mig[p]) =>
          /\ Len(dest') >= Len(dest)
          /\ \A k \in 1..Len(dest) : dest'[k] = dest[k]]_vars

\* a migration run made over a store with a Minted record has returned Ok
\* after it skipped a record, and the Minted record is as settlement left it
MigrationKeepsRecordsWitness ==
    \E p \in Migrators :
        /\ mig[p].pc = "idle"
        /\ mig[p].result = "ok"
        /\ mig[p].skipped >= 1
        /\ mig[p].migrated = 0
        /\ \E r \in Rows : r.is_minted /\ r.minted_signature # NullSig

\* C36: for every migrated record that is still Pending, get_pending_mints
\* returns the record with an amount equal to the raw amount of its source
\* event, for every raw amount of the u64 range, also at or above 2^63.
AmountPreservation ==
    LET pending_records == get_pending_mints(dest, min_burn_amount) IN
    \A e \in Events : \A row \in Rows :
        (/\ row.signature = e.signature
         /\ ~row.is_minted
         /\ e.amount >= 0
         /\ e.amount <= U64Max) =>
            \E j \in 1..Len(pending_records) :
                /\ pending_records[j].signature = e.signature
                /\ pending_records[j].amount = e.amount

BadAmount(column) ==
    \/ column.type = "null"
    \/ column.type = "text" /\ ~column.parses
    \/ column.type \in {"text", "integer", "real"} /\ column.parses /\ column.value < 0

\* C38: a source row whose amount cannot be decoded or is negative has raw
\* amount 0 and never has a record; a bulk run counts every such row it has
\* passed as below the minimum.
BadAmountContainment ==
    LET m == mig["A"]
        bad(n) == Cardinality({k \in 1..n : BadAmount(source[k].column)})
    IN /\ min_burn_amount > 0
       /\ \A e \in Events :
             BadAmount(e.column) =>
                /\ RawAmount(e.amount) = 0
                /\ ~Exists(dest, e.signature)
       /\ (m.pc \in {"check", "insert"} /\ m.burner = NoBurner) =>
             m.below >= bad(m.i - 1)
       /\ (RunEnded /\ m.burner = NoBurner /\ m.result = "ok") =>
             m.below >= bad(Len(source))

\* a bulk run has returned Ok over a source with a row that does not decode
\* and a row with a negative amount, both counted below the minimum
BadAmountContainmentWitness ==
    /\ RunEnded
    /\ mig["A"].burner = NoBurner
    /\ mig["A"].result = "ok"
    /\ mig["A"].below >= 2
    /\ \E e \in Events : ~e.column.parses
    /\ \E e \in Events : e.column.parses /\ e.column.value < 0

\* C39: a settlement run works on the list of pending records fetched once
\* at its start: the list holds each record once and does not change during
\* the run, so a record inserted later is not in it; the run attempts the
\* records one after the other, each once, and ends after the last one; a
\* submission is made only for the record the run is at; outside a run (the
\* fetched list was empty) no submission is made and no record is changed;
\* and every run ends when each of its steps returns.
SnapshotRun ==
    /\ [][/\ (st.pc = "idle" /\ st'.pc # "idle") =>
               /\ st'.pc = "mint"
               /\ st'.i = 1
               /\ Len(st'.pending) >= 1
               /\ \A j \in 1..Len(st'.pending) :
                     /\ PendingRow(dest, st'.pending[j].signature)
                     /\ \A k \in 1..Len(st'.pending) :
                           st'.pending[k].signature = st'.pending[j].signature => k = j
          /\ (st.pc # "idle" /\ st'.pc # "idle") =>
               /\ st'.pending = st.pending
               /\ st'.i \in 1..Len(st.pending)
               /\ st'.i # st.i => (st.pc = "sleep" /\ st'.pc = "mint" /\ st'.i = st.i + 1)
          /\ (st.pc = "mint" /\ st' # st) => (st'.pc \in {"mark", "sleep"} /\ st'.i = st.i)
          /\ (st.pc # "idle" /\ st'.pc = "idle") =>
               (st.pc = "sleep" /\ st.i = Len(st.pending))
          /\ ledger' # ledger =>
               /\ st.pc = "mint"
               /\ Len(ledger') = Len(ledger) + 1
               /\ ledger'[Len(ledger')].burn = st.pending[st.i].signature
          /\ (st.pc = "idle" /\ st'.pc = "idle") =>
               /\ ledger' = ledger
               /\ \A k \in 1..Len(dest) : dest'[k] = dest[k]]_vars
    /\ (st.pc # "idle") ~> (st.pc = "idle")

\* a run is under way while the store holds a Pending record at or above
\* the threshold that was inserted after the run fetched its list
SnapshotRunWitness ==
    /\ st.pc # "idle"
    /\ \E row \in Rows :
          /\ ~row.is_minted
          /\ row.amount >= min_burn_amount
          /\ \A j \in 1..Len(st.pending) : st.pending[j].signature # row.signature
====
